---- MODULE Spec2Model ----
(***************************************************************************)
(* Model of src/randomx/memory.rs: SeedMemory, init_dataset_item,          *)
(* VmMemoryAllocator and VmMemory (light / full mode dataset cache behind  *)
(* one RwLock).                                                            *)
(*                                                                         *)
(* A u64 is a tuple of 8 bytes, least significant first, because the       *)
(* values of the program (offsets up to 2^64 - 1, the SUPERSCALAR          *)
(* constants) do not fit the model checker's integers.                     *)
(***************************************************************************)
EXTENDS Integers, Sequences, FiniteSets, TLC

(***************************************************************************)
(* Bounds of the model.                                                    *)
(***************************************************************************)
NumThreads == 2
MaxCalls == 2
MaxMems == 3

(***************************************************************************)
(* Program constants (memory.rs lines 12-30).                              *)
(***************************************************************************)
RANDOMX_ARGON_MEMORY == 262144
RANDOMX_CACHE_ACCESSES == 8
ARGON_BLOCK_SIZE == 1024
CACHE_LINE_SIZE == 64
DATASET_ITEM_COUNT == 34078719

SUPERSCALAR_MUL_0 == <<45, 127, 149, 76, 45, 244, 81, 88>>
SUPERSCALAR_ADD_1 == <<252, 161, 245, 89, 138, 151, 10, 129>>
SUPERSCALAR_ADD_2 == <<70, 216, 194, 56, 223, 153, 112, 167>>
SUPERSCALAR_ADD_3 == <<92, 73, 34, 191, 28, 185, 38, 129>>
SUPERSCALAR_ADD_4 == <<98, 138, 159, 23, 151, 37, 77, 73>>
SUPERSCALAR_ADD_5 == <<12, 236, 170, 206, 185, 239, 55, 146>>
SUPERSCALAR_ADD_6 == <<120, 45, 230, 108, 116, 86, 42, 47>>
SUPERSCALAR_ADD_7 == <<78, 229, 44, 182, 247, 59, 133, 132>>

(***************************************************************************)
(* u64 arithmetic on 8-byte little-endian tuples.                          *)
(***************************************************************************)
U64Zero == <<0, 0, 0, 0, 0, 0, 0, 0>>

\* n as u64, for 0 <= n < 2^31
U64FromNat(n) ==
    <<n % 256, (n \div 256) % 256, (n \div 65536) % 256, (n \div 16777216) % 256,
      0, 0, 0, 0>>

\* w < 2^31: the value can be used as an integer of the model
FitsNat(w) == w[4] < 128 /\ w[5] = 0 /\ w[6] = 0 /\ w[7] = 0 /\ w[8] = 0

ToNat(w) == w[1] + 256 * w[2] + 65536 * w[3] + 16777216 * w[4]

RECURSIVE XorBits(_, _, _)
XorBits(a, b, n) ==
    IF n = 0 THEN 0
    ELSE ((a + b) % 2) + 2 * XorBits(a \div 2, b \div 2, n - 1)

RECURSIVE AndBits(_, _, _)
AndBits(a, b, n) ==
    IF n = 0 THEN 0
    ELSE ((a % 2) * (b % 2)) + 2 * AndBits(a \div 2, b \div 2, n - 1)

XorNib == [a \in 0..15 |-> [b \in 0..15 |-> XorBits(a, b, 4)]]
AndNib == [a \in 0..15 |-> [b \in 0..15 |-> AndBits(a, b, 4)]]

XorByte(a, b) == 16 * XorNib[a \div 16][b \div 16] + XorNib[a % 16][b % 16]
AndByte(a, b) == 16 * AndNib[a \div 16][b \div 16] + AndNib[a % 16][b % 16]

\* x ^ y
bitxor(x, y) ==
    <<XorByte(x[1], y[1]), XorByte(x[2], y[2]), XorByte(x[3], y[3]),
      XorByte(x[4], y[4]), XorByte(x[5], y[5]), XorByte(x[6], y[6]),
      XorByte(x[7], y[7]), XorByte(x[8], y[8])>>

\* x & y
bitand(x, y) ==
    <<AndByte(x[1], y[1]), AndByte(x[2], y[2]), AndByte(x[3], y[3]),
      AndByte(x[4], y[4]), AndByte(x[5], y[5]), AndByte(x[6], y[6]),
      AndByte(x[7], y[7]), AndByte(x[8], y[8])>>

RECURSIVE AddAcc(_, _, _)
AddAcc(a, b, k) ==
    a[k] + b[k] + (IF k = 1 THEN 0 ELSE AddAcc(a, b, k - 1) \div 256)

\* a + b modulo 2^64
wrapping_add(a, b) == [k \in 1..8 |-> AddAcc(a, b, k) % 256]

RECURSIVE MulColumn(_, _, _, _)
MulColumn(a, b, k, i) ==
    IF i = 0 THEN 0 ELSE a[i] * b[k + 1 - i] + MulColumn(a, b, k, i - 1)

RECURSIVE MulAcc(_, _, _)
MulAcc(a, b, k) ==
    IF k = 0 THEN 0 ELSE MulColumn(a, b, k, k) + (MulAcc(a, b, k - 1) \div 256)

\* u64::wrapping_mul: a * b modulo 2^64
wrapping_mul(a, b) == [k \in 1..8 |-> MulAcc(a, b, k) % 256]

RECURSIVE DivRem(_, _, _)
DivRem(a, d, k) == IF k = 9 THEN 0 ELSE (DivRem(a, d, k + 1) * 256 + a[k]) % d

\* a / d for a u64 a and a divisor 1 <= d < 2^22
div_u64(a, d) == [k \in 1..8 |-> (DivRem(a, d, k + 1) * 256 + a[k]) \div d]

(***************************************************************************)
(* SeedMemory.  blocks is a pure function of the key; the model keeps its   *)
(* length and the key, and reads a word of it with fill_memory.            *)
(***************************************************************************)
RECURSIVE KeySum(_, _)
KeySum(key, n) == IF n = 0 THEN 0 ELSE (key[n] * (2 * n + 1) + KeySum(key, n - 1)) % 65536

\* Argon2d fill of the block array: word v_ix of block block_ix for this key
fill_memory(key, block_ix, v_ix) ==
    LET h == KeySum(key, Len(key)) + 7 * Len(key) + 3
    IN  [j \in 1..8 |->
            (h * (16 + j) + block_ix * (30 + j) + (block_ix \div 256) * j
               + v_ix * (6 + j) + j * j * 13) % 256]

\* ScProgram::generate: the k-th program (k in 1..8) drawn from Blake2Generator::new(key, 0)
ScProgram_generate(key, k) ==
    LET h == KeySum(key, Len(key)) + 5 * Len(key) + 11 * k
    IN  [dst         |-> h % 8,
         src         |-> (h \div 8 + k) % 8,
         imm         |-> U64FromNat(h * 2654 + k),
         address_reg |-> (h + 3 * k) % 8]

\* ScProgram::execute: transforms the 8 registers in place
execute(prog, ds) ==
    [ds EXCEPT ![prog.dst] =
        bitxor(wrapping_mul(ds[prog.dst], SUPERSCALAR_MUL_0),
               wrapping_add(ds[prog.src], prog.imm))]

SeedMemory_no_memory == [key |-> <<>>, blocks |-> 0, programs |-> 0]

SeedMemory_new_initialised(key) ==
    [key |-> key, blocks |-> RANDOMX_ARGON_MEMORY, programs |-> RANDOMX_CACHE_ACCESSES]

(***************************************************************************)
(* mix_block_value and init_dataset_item.                                  *)
(***************************************************************************)
\* mutant: the mask is the number of cache lines, the "- 1" is missing
mix_mask_no_minus_one == (RANDOMX_ARGON_MEMORY * ARGON_BLOCK_SIZE) \div CACHE_LINE_SIZE

\* line 76
mix_mask == ((RANDOMX_ARGON_MEMORY * ARGON_BLOCK_SIZE) \div CACHE_LINE_SIZE) - 1

mix_byte_offset(reg_value, r) ==
    ToNat(bitand(reg_value, U64FromNat(mix_mask))) * CACHE_LINE_SIZE + 8 * r

mix_block_ix(reg_value, r) == mix_byte_offset(reg_value, r) \div ARGON_BLOCK_SIZE

mix_block_v_ix(reg_value, r) ==
    (mix_byte_offset(reg_value, r) - mix_block_ix(reg_value, r) * ARGON_BLOCK_SIZE) \div 8

IndexPanic == "index out of bounds"

\* line 81: both indexings are in bounds (a Block holds 128 words)
mix_index_ok(seed_mem, reg_value, r) ==
    mix_block_ix(reg_value, r) < seed_mem.blocks /\ mix_block_v_ix(reg_value, r) < 128

mix_block_value(seed_mem, reg_value, r) ==
    IF mix_index_ok(seed_mem, reg_value, r)
    THEN fill_memory(seed_mem.key, mix_block_ix(reg_value, r), mix_block_v_ix(reg_value, r))
    ELSE IndexPanic

\* mutant: the seven constants are added (as their names suggest) instead of XORed
init_accumulator_adds(item_num) ==
    LET ds0 == wrapping_mul(wrapping_add(item_num, U64FromNat(1)), SUPERSCALAR_MUL_0)
    IN  [r \in 0..7 |->
            CASE r = 0 -> ds0
              [] r = 1 -> wrapping_add(ds0, SUPERSCALAR_ADD_1)
              [] r = 2 -> wrapping_add(ds0, SUPERSCALAR_ADD_2)
              [] r = 3 -> wrapping_add(ds0, SUPERSCALAR_ADD_3)
              [] r = 4 -> wrapping_add(ds0, SUPERSCALAR_ADD_4)
              [] r = 5 -> wrapping_add(ds0, SUPERSCALAR_ADD_5)
              [] r = 6 -> wrapping_add(ds0, SUPERSCALAR_ADD_6)
              [] r = 7 -> wrapping_add(ds0, SUPERSCALAR_ADD_7)]

\* lines 85-95: the accumulator before any program runs
init_accumulator(item_num) ==
    LET ds0 == wrapping_mul(wrapping_add(item_num, U64FromNat(1)), SUPERSCALAR_MUL_0)
    IN  [r \in 0..7 |->
            CASE r = 0 -> ds0
              [] r = 1 -> bitxor(ds0, SUPERSCALAR_ADD_1)
              [] r = 2 -> bitxor(ds0, SUPERSCALAR_ADD_2)
              [] r = 3 -> bitxor(ds0, SUPERSCALAR_ADD_3)
              [] r = 4 -> bitxor(ds0, SUPERSCALAR_ADD_4)
              [] r = 5 -> bitxor(ds0, SUPERSCALAR_ADD_5)
              [] r = 6 -> bitxor(ds0, SUPERSCALAR_ADD_6)
              [] r = 7 -> bitxor(ds0, SUPERSCALAR_ADD_7)]

\* lines 98-104: one iteration of the loop over seed_mem.programs
dataset_pass(seed_mem, prog, st) ==
    LET ex    == execute(prog, st.ds)
        mixed == [r \in 0..7 |-> bitxor(ex[r], mix_block_value(seed_mem, st.reg_value, r))]
    IN  [ds |-> mixed, reg_value |-> mixed[prog.address_reg]]

RECURSIVE dataset_loop(_, _, _)
dataset_loop(seed_mem, item_num, k) ==
    IF k = 0 THEN [ds |-> init_accumulator(item_num), reg_value |-> item_num]
    ELSE dataset_pass(seed_mem, ScProgram_generate(seed_mem.key, k),
                      dataset_loop(seed_mem, item_num, k - 1))

init_dataset_item(seed_mem, item_num) ==
    dataset_loop(seed_mem, item_num, seed_mem.programs).ds

\* for i in 0..8 { reg[i] ^= rl[i] }
xor_into(reg, rl) == [i \in 0..7 |-> bitxor(reg[i], rl[i])]

\* mutant: the hit path assigns the cached words instead of XORing them
xor_cached_assign(reg, rl) == rl

\* mutant: the hit path adds the cached words instead of XORing them
xor_cached_add(reg, rl) == [i \in 0..7 |-> wrapping_add(reg[i], rl[i])]

\* lines 192-194: the loop of the hit path
xor_cached(reg, rl) == xor_into(reg, rl)

\* mutant: the miss path XORs the derived item twice
xor_stored_twice(reg, rl) == xor_into(xor_into(reg, rl), rl)

\* lines 202-204: the loop of the miss path
xor_stored(reg, rl) == xor_into(reg, rl)

(***************************************************************************)
(* Inputs of the model.                                                    *)
(***************************************************************************)
Threads == 1..NumThreads

Seeds == {"", "aa"}

\* byte_string::string_to_u8_array: the bytes of the seed string
string_to_u8_array(seed) ==
    CASE seed = ""   -> <<>>
      [] seed = "aa" -> <<97, 97>>

Keys == {string_to_u8_array(s) : s \in Seeds}

OffsetItem1      == U64FromNat(71)
OffsetLastValid  == <<191, 255, 255, 129, 0, 0, 0, 0>>
OffsetFirstPast  == <<192, 255, 255, 129, 0, 0, 0, 0>>
Offsets == {OffsetItem1, OffsetLastValid, OffsetFirstPast}

RegZero == [i \in 0..7 |-> U64Zero]
RegA    == [i \in 0..7 |-> U64FromNat(1000003 * (i + 1))]
Regs == {RegA}

\* offsets of the reads through the placeholder memory: the three above, the smallest
\* and the largest u64
PlaceholderOffsets == Offsets \cup {U64Zero, <<255, 255, 255, 255, 255, 255, 255, 255>>}

\* offsets of chained reads: two in the cache line of item 1, one in that of item 2
XorOffsets == {U64FromNat(64), OffsetItem1, U64FromNat(130)}

ItemNums == {div_u64(o, CACHE_LINE_SIZE) : o \in PlaceholderOffsets \cup XorOffsets}

SeedMemories == {SeedMemory_no_memory} \cup {SeedMemory_new_initialised(k) : k \in Keys}

\* init_dataset_item is pure (SeedMemory is never mutated): its value for every
\* seed memory and item of the model, computed once
dataset_items ==
    [sm \in SeedMemories |-> [n \in ItemNums |-> init_dataset_item(sm, n)]]

(***************************************************************************)
(* VmMemory.  dataset_memory is the RwLock and the Vec it guards: the      *)
(* Vec is kept as its length and the map of its Some slots.                *)
(***************************************************************************)
NoSlots == [i \in {} |-> RegZero]

RwLock_new(len) == [readers |-> {}, writer |-> 0, len |-> len, slots |-> NoSlots]

\* mutant: the placeholder claims a cache it does not have
VmMemory_no_memory_cached ==
    [seed_memory |-> SeedMemory_no_memory, cache |-> TRUE, dataset_memory |-> RwLock_new(0)]

\* lines 145-151
VmMemory_no_memory ==
    [seed_memory |-> SeedMemory_no_memory, cache |-> FALSE, dataset_memory |-> RwLock_new(0)]

VmMemory_light(key) ==
    [seed_memory |-> SeedMemory_new_initialised(key), cache |-> FALSE,
     dataset_memory |-> RwLock_new(0)]

VmMemory_full(key) ==
    [seed_memory |-> SeedMemory_new_initialised(key), cache |-> TRUE,
     dataset_memory |-> RwLock_new(DATASET_ITEM_COUNT)]

\* mem[item_num as usize] does not panic
in_bounds(dm, item_num) == FitsNat(item_num) /\ ToNat(item_num) < dm.len

\* mem[item_num as usize] is Some
is_some(dm, item_num) == ToNat(item_num) \in DOMAIN dm.slots

\* mutant: the store is one slot off
slot_store_off_by_one(dm, item_num, rl) ==
    [dm EXCEPT !.slots =
        [i \in (DOMAIN dm.slots) \cup {ToNat(item_num) - 1} |->
            IF i = ToNat(item_num) - 1 THEN rl ELSE dm.slots[i]]]

\* mutant: the store rebuilds the Vec and keeps only the new item
slot_store_rebuild(dm, item_num, rl) ==
    [dm EXCEPT !.slots = [i \in {ToNat(item_num)} |-> rl]]

\* mutant: the store goes to a copy of the Vec and is lost
slot_store_lost(dm, item_num, rl) == dm

\* mutant: the store appends the item (Vec::push), the Vec grows by one
slot_store_pushes(dm, item_num, rl) ==
    [dm EXCEPT !.len = @ + 1,
               !.slots = [i \in (DOMAIN dm.slots) \cup {ToNat(item_num)} |->
                            IF i = ToNat(item_num) THEN rl ELSE dm.slots[i]]]

\* line 201: mem_mut[item_num as usize] = Some(rl)
slot_store(dm, item_num, rl) ==
    [dm EXCEPT !.slots =
        [i \in (DOMAIN dm.slots) \cup {ToNat(item_num)} |->
            IF i = ToNat(item_num) THEN rl ELSE dm.slots[i]]]

\* mutant: the prefetch takes the item out of its slot (Option::take) to hint on it
prefetch_hint_takes(dm, item_num) ==
    [dm EXCEPT !.slots = [i \in (DOMAIN dm.slots) \ {ToNat(item_num)} |-> dm.slots[i]]]

\* lines 175-180: _mm_prefetch on the slot is a hint to the hardware; the Vec is not written
prefetch_hint(dm, item_num) == dm

\* lines 207-210: light mode derives the item and XORs it into reg
dataset_read_light(vm, item_num, reg) ==
    xor_into(reg, dataset_items[vm.seed_memory][item_num])

\* line 199 in full mode: let rl = init_dataset_item(&self.seed_memory, item_num)
derive_item(vm, item_num) == dataset_items[vm.seed_memory][item_num]

read_lock(dm, t)    == [dm EXCEPT !.readers = @ \cup {t}]
read_unlock(dm, t)  == [dm EXCEPT !.readers = @ \ {t}]
write_lock(dm, t)   == [dm EXCEPT !.writer = t]
write_unlock(dm, t) == [dm EXCEPT !.writer = 0]

(***************************************************************************)
(* State.                                                                  *)
(*   alloc : the VmMemoryAllocator (vm_memory is an index into mems)       *)
(*   mems  : every VmMemory constructed so far, in construction order      *)
(*   th    : per thread, the handle it holds and the call it is in         *)
(*   last  : the most recent reallocate call and its seed (history)        *)
(*   stores: per memory and slot, how often line 201 wrote it (history)    *)
(*   calls : number of dataset_read / dataset_prefetch calls started       *)
(*   item  : a direct call of init_dataset_item or mix_block_value, and how *)
(*           far it has run                                                *)
(***************************************************************************)
VARIABLES alloc, mems, th, last, stores, calls, item

vars == <<alloc, mems, th, last, stores, calls, item>>

\* no direct call of init_dataset_item or mix_block_value
NoItem == [pc |-> "none"]

NoRl == <<>>

\* a thread with no call in progress.  reg is the register array of the current
\* call, reg0 its value at entry, rl the item derived at line 199, stale_at_call
\* whether the allocator held another VmMemory when the call started (history),
\* some_at_call whether the slot of the call was populated when it started (history),
\* chain the items of the reads made so far on this register array and reg_first the
\* array before the first of them (history)
IdleThread ==
    [pc |-> "idle", handle |-> 0, op |-> "none", offset |-> U64Zero, item_num |-> U64Zero,
     reg |-> RegZero, reg0 |-> RegZero, rl |-> NoRl, stale_at_call |-> FALSE,
     some_at_call |-> FALSE, chain |-> <<>>, reg_first |-> RegZero]

\* VmMemoryAllocator::initial
VmMemoryAllocator_initial == [vm_memory_seed |-> "", vm_memory |-> 1]

Init ==
    /\ alloc = VmMemoryAllocator_initial
    /\ mems = <<VmMemory_no_memory>>
    /\ th = [t \in Threads |-> IdleThread]
    /\ last = [op |-> "initial"]
    /\ stores = <<NoSlots>>
    /\ calls = 0
    /\ item = NoItem

mem_of(t) == mems[th[t].handle]

CanCall(t) == th[t].pc \in {"idle", "done"} /\ th[t].handle # 0 /\ calls < MaxCalls

\* mutant: the seed comparison is dropped, every call rebuilds the memory
seed_changed_always(a, seed) == TRUE

\* mutant: an empty seed is taken to mean "nothing to build"
seed_changed_nonempty(a, seed) == seed # a.vm_memory_seed /\ seed # ""

\* line 124: if seed != self.vm_memory_seed
seed_changed(a, seed) == seed # a.vm_memory_seed

\* mutant: line 127 is missing, the new memory is installed under the old seed
reallocated_keeps_seed(seed, ix) == [vm_memory_seed |-> alloc.vm_memory_seed, vm_memory |-> ix]

\* lines 126-127: the allocator after the new Arc (at index ix of mems) is installed
reallocated(seed, ix) == [vm_memory_seed |-> seed, vm_memory |-> ix]

\* mutant: the new memory is built in place of the one the shared handle points to
ReallocateInPlace(seed) ==
    /\ IF seed_changed(alloc, seed)
       THEN /\ mems' = [mems EXCEPT ![alloc.vm_memory] =
                          VmMemory_full(string_to_u8_array(seed))]
            /\ stores' = [stores EXCEPT ![alloc.vm_memory] = NoSlots]
            /\ alloc' = reallocated(seed, alloc.vm_memory)
       ELSE UNCHANGED <<alloc, mems, stores>>
    /\ last' = [op |-> "reallocate", seed |-> seed, rebuilt |-> seed_changed(alloc, seed)]
    /\ UNCHANGED <<item, th, calls>>

\* mutant: the new memory is built with the cache array of the memory it replaces
ReallocateKeepsCache(seed) ==
    /\ IF seed_changed(alloc, seed)
       THEN /\ Len(mems) < MaxMems
            /\ mems' = Append(mems, [VmMemory_full(string_to_u8_array(seed)) EXCEPT
                                       !.dataset_memory.slots =
                                          mems[alloc.vm_memory].dataset_memory.slots])
            /\ stores' = Append(stores, NoSlots)
            /\ alloc' = reallocated(seed, Len(mems) + 1)
       ELSE UNCHANGED <<alloc, mems, stores>>
    /\ last' = [op |-> "reallocate", seed |-> seed, rebuilt |-> seed_changed(alloc, seed)]
    /\ UNCHANGED <<item, th, calls>>

\* VmMemoryAllocator::reallocate, lines 123-134
Reallocate(seed) ==
    /\ IF seed_changed(alloc, seed)
       THEN /\ Len(mems) < MaxMems
            /\ mems' = Append(mems, VmMemory_full(string_to_u8_array(seed)))
            /\ stores' = Append(stores, NoSlots)
            /\ alloc' = reallocated(seed, Len(mems) + 1)
       ELSE UNCHANGED <<alloc, mems, stores>>
    /\ last' = [op |-> "reallocate", seed |-> seed, rebuilt |-> seed_changed(alloc, seed)]
    /\ UNCHANGED <<item, th, calls>>

\* a worker between two calls clones the allocator's Arc<VmMemory> (line 112) and
\* drops the handle it held; no call is in progress through the new handle
Fetch(t) ==
    /\ th[t].pc \in {"idle", "done"}
    /\ th[t].handle # alloc.vm_memory
    /\ th' = [th EXCEPT ![t] = [IdleThread EXCEPT !.handle = alloc.vm_memory]]
    /\ UNCHANGED <<item, last, alloc, mems, stores, calls>>

\* VmMemory::light, lines 153-159; the caller keeps the new instance
Light(t, key) ==
    /\ th[t].pc \in {"idle", "done"}
    /\ Len(mems) < MaxMems
    /\ mems' = Append(mems, VmMemory_light(key))
    /\ stores' = Append(stores, NoSlots)
    /\ th' = [th EXCEPT ![t] = [IdleThread EXCEPT !.handle = Len(mems) + 1]]
    /\ UNCHANGED <<item, last, alloc, calls>>

\* dataset_read, lines 184-187: entry; offset and reg are the caller's arguments
ReadCall(t, offset) ==
    /\ CanCall(t)
    /\ \E reg \in Regs :
          th' = [th EXCEPT ![t] =
                   [@ EXCEPT !.pc = IF mem_of(t).cache THEN "rd_lock" ELSE "rd_light",
                             !.op = "read", !.offset = offset,
                             !.item_num = div_u64(offset, CACHE_LINE_SIZE),
                             !.reg = reg, !.reg0 = reg, !.rl = NoRl,
                             !.chain = <<div_u64(offset, CACHE_LINE_SIZE)>>,
                             !.reg_first = reg,
                             !.stale_at_call = (th[t].handle # alloc.vm_memory),
                             !.some_at_call =
                                /\ in_bounds(mem_of(t).dataset_memory,
                                             div_u64(offset, CACHE_LINE_SIZE))
                                /\ is_some(mem_of(t).dataset_memory,
                                           div_u64(offset, CACHE_LINE_SIZE))]]
    /\ calls' = calls + 1
    /\ UNCHANGED <<item, last, alloc, mems, stores>>

\* dataset_read, lines 184-187: entry of a further read on the register array the
\* caller's previous read returned with
ReadAgain(t, offset) ==
    /\ CanCall(t)
    /\ th[t].pc = "done" /\ th[t].op = "read"
    /\ th' = [th EXCEPT ![t] =
                [@ EXCEPT !.pc = IF mem_of(t).cache THEN "rd_lock" ELSE "rd_light",
                          !.offset = offset,
                          !.item_num = div_u64(offset, CACHE_LINE_SIZE),
                          !.reg0 = th[t].reg, !.rl = NoRl,
                          !.chain = Append(@, div_u64(offset, CACHE_LINE_SIZE)),
                          !.stale_at_call = (th[t].handle # alloc.vm_memory),
                          !.some_at_call =
                             /\ in_bounds(mem_of(t).dataset_memory,
                                          div_u64(offset, CACHE_LINE_SIZE))
                             /\ is_some(mem_of(t).dataset_memory,
                                        div_u64(offset, CACHE_LINE_SIZE))]]
    /\ calls' = calls + 1
    /\ UNCHANGED <<item, last, alloc, mems, stores>>

\* dataset_read, lines 206-211: light mode
ReadLight(t) ==
    /\ th[t].pc = "rd_light"
    /\ th' = [th EXCEPT ![t].reg = dataset_read_light(mem_of(t), th[t].item_num, @),
                        ![t].pc = "done"]
    /\ UNCHANGED <<item, last, alloc, mems, stores, calls>>

\* dataset_read, line 189: dataset_memory.read()
ReadAcquire(t) ==
    /\ th[t].pc = "rd_lock"
    /\ mem_of(t).dataset_memory.writer = 0
    /\ mems' = [mems EXCEPT ![th[t].handle].dataset_memory = read_lock(@, t)]
    /\ th' = [th EXCEPT ![t].pc = "rd_check"]
    /\ UNCHANGED <<item, last, alloc, stores, calls>>

\* dataset_read, lines 190-197: look at the slot under the shared lock
ReadCheck(t) ==
    /\ th[t].pc = "rd_check"
    /\ mems' = [mems EXCEPT ![th[t].handle].dataset_memory = read_unlock(@, t)]
    /\ th' = [th EXCEPT ![t] =
                IF ~in_bounds(mem_of(t).dataset_memory, th[t].item_num)
                THEN [@ EXCEPT !.pc = "panicked"]
                ELSE IF is_some(mem_of(t).dataset_memory, th[t].item_num)
                THEN [@ EXCEPT !.pc = "done",
                               !.reg = xor_cached(@,
                                   mem_of(t).dataset_memory.slots[ToNat(th[t].item_num)])]
                ELSE [@ EXCEPT !.pc = "derive"]]
    /\ UNCHANGED <<item, last, alloc, stores, calls>>

\* dataset_read, line 199: derive the item, no lock held
Derive(t) ==
    /\ th[t].pc = "derive"
    /\ th' = [th EXCEPT ![t].rl = derive_item(mem_of(t), th[t].item_num),
                        ![t].pc = "wr_lock"]
    /\ UNCHANGED <<item, last, alloc, mems, stores, calls>>

\* dataset_read, line 200: dataset_memory.write()
WriteAcquire(t) ==
    /\ th[t].pc = "wr_lock"
    /\ mem_of(t).dataset_memory.writer = 0
    /\ mem_of(t).dataset_memory.readers = {}
    /\ mems' = [mems EXCEPT ![th[t].handle].dataset_memory = write_lock(@, t)]
    /\ th' = [th EXCEPT ![t].pc = "wr_store"]
    /\ UNCHANGED <<item, last, alloc, stores, calls>>

\* mutant: the slot is checked again under the exclusive lock and written only if
\* it is still empty
WriteStoreIfEmpty(t) ==
    /\ th[t].pc = "wr_store"
    /\ IF is_some(mem_of(t).dataset_memory, th[t].item_num)
       THEN /\ mems' = [mems EXCEPT ![th[t].handle].dataset_memory = write_unlock(@, t)]
            /\ stores' = stores
            /\ th' = [th EXCEPT ![t].reg =
                        xor_stored(@, mem_of(t).dataset_memory.slots[ToNat(th[t].item_num)]),
                                ![t].pc = "done"]
       ELSE /\ mems' = [mems EXCEPT ![th[t].handle].dataset_memory =
                          write_unlock(slot_store(@, th[t].item_num, th[t].rl), t)]
            /\ stores' = [stores EXCEPT ![th[t].handle] =
                            [j \in (DOMAIN @) \cup {ToNat(th[t].item_num)} |->
                                IF j = ToNat(th[t].item_num) THEN 1 ELSE @[j]]]
            /\ th' = [th EXCEPT ![t].reg = xor_stored(@, th[t].rl), ![t].pc = "done"]
    /\ UNCHANGED <<item, last, alloc, calls>>

\* dataset_read, lines 201-205: store, XOR, drop the exclusive lock
WriteStore(t) ==
    /\ th[t].pc = "wr_store"
    /\ mems' = [mems EXCEPT ![th[t].handle].dataset_memory =
                  write_unlock(slot_store(@, th[t].item_num, th[t].rl), t)]
    /\ stores' = [stores EXCEPT ![th[t].handle] =
                    LET i == ToNat(th[t].item_num)
                    IN  [j \in (DOMAIN @) \cup {i} |->
                            IF j = i THEN (IF i \in DOMAIN @ THEN @[i] + 1 ELSE 1)
                            ELSE @[j]]]
    /\ th' = [th EXCEPT ![t].reg = xor_stored(@, th[t].rl), ![t].pc = "done"]
    /\ UNCHANGED <<item, last, alloc, calls>>

\* dataset_prefetch, lines 170-172: entry
PrefetchCall(t, offset) ==
    /\ CanCall(t)
    /\ th' = [th EXCEPT ![t] =
                [@ EXCEPT !.pc = IF mem_of(t).cache THEN "pf_lock" ELSE "done",
                          !.op = "prefetch", !.offset = offset,
                          !.item_num = div_u64(offset, CACHE_LINE_SIZE),
                          !.rl = NoRl, !.reg0 = th[t].reg,
                          !.stale_at_call = (th[t].handle # alloc.vm_memory),
                          !.some_at_call = FALSE]]
    /\ calls' = calls + 1
    /\ UNCHANGED <<item, last, alloc, mems, stores>>

\* dataset_prefetch, line 173: dataset_memory.read()
PrefetchAcquire(t) ==
    /\ th[t].pc = "pf_lock"
    /\ mem_of(t).dataset_memory.writer = 0
    /\ mems' = [mems EXCEPT ![th[t].handle].dataset_memory = read_lock(@, t)]
    /\ th' = [th EXCEPT ![t].pc = "pf_check"]
    /\ UNCHANGED <<item, last, alloc, stores, calls>>

\* dataset_prefetch, lines 174-181: the hint changes no program state
PrefetchCheck(t) ==
    /\ th[t].pc = "pf_check"
    /\ mems' = [mems EXCEPT ![th[t].handle].dataset_memory =
                  read_unlock(IF in_bounds(@, th[t].item_num) /\ is_some(@, th[t].item_num)
                              THEN prefetch_hint(@, th[t].item_num) ELSE @, t)]
    /\ th' = [th EXCEPT ![t].pc =
                IF in_bounds(mem_of(t).dataset_memory, th[t].item_num)
                THEN "done" ELSE "panicked"]
    /\ UNCHANGED <<item, last, alloc, stores, calls>>

Next ==
    \/ \E seed \in Seeds : Reallocate(seed)
    \/ \E t \in Threads : Fetch(t)
    \/ \E t \in Threads, key \in Keys : Light(t, key)
    \/ \E t \in Threads, offset \in Offsets : ReadCall(t, offset)
    \/ \E t \in Threads : ReadLight(t)
    \/ \E t \in Threads : ReadAcquire(t)
    \/ \E t \in Threads : ReadCheck(t)
    \/ \E t \in Threads : Derive(t)
    \/ \E t \in Threads : WriteAcquire(t)
    \/ \E t \in Threads : WriteStore(t)
    \/ \E t \in Threads, offset \in Offsets : PrefetchCall(t, offset)
    \/ \E t \in Threads : PrefetchAcquire(t)
    \/ \E t \in Threads : PrefetchCheck(t)

Spec == Init /\ [][Next]_vars

(***************************************************************************)
(* SpecCache: the threads share VmMemory instances built directly with     *)
(* VmMemory::full(key) and VmMemory::light(key) (one key, one instance of  *)
(* each mode); the allocator stays as initial() left it.                   *)
(***************************************************************************)
InitCache ==
    /\ alloc = VmMemoryAllocator_initial
    /\ \E key \in Keys :
          mems = <<VmMemory_no_memory, VmMemory_full(key), VmMemory_light(key)>>
    /\ \E h \in [Threads -> {2, 3}] :
          th = [t \in Threads |-> [IdleThread EXCEPT !.handle = h[t]]]
    /\ last = [op |-> "initial"]
    /\ stores = <<NoSlots, NoSlots, NoSlots>>
    /\ calls = 0
    /\ item = NoItem

NextCache ==
    \/ \E t \in Threads, offset \in Offsets : ReadCall(t, offset)
    \/ \E t \in Threads : ReadLight(t)
    \/ \E t \in Threads : ReadAcquire(t)
    \/ \E t \in Threads : ReadCheck(t)
    \/ \E t \in Threads : Derive(t)
    \/ \E t \in Threads : WriteAcquire(t)
    \/ \E t \in Threads : WriteStore(t)
    \/ \E t \in Threads, offset \in Offsets : PrefetchCall(t, offset)
    \/ \E t \in Threads : PrefetchAcquire(t)
    \/ \E t \in Threads : PrefetchCheck(t)

SpecCache == InitCache /\ [][NextCache]_vars

(***************************************************************************)
(* SpecAlloc: the allocator and the threads that fetch its handle and read *)
(* through it (reads of one dataset item).                                 *)
(***************************************************************************)
AllocOffsets == {OffsetItem1}

NextAlloc ==
    \/ \E seed \in Seeds : Reallocate(seed)
    \/ \E t \in Threads : Fetch(t)
    \/ \E t \in Threads, offset \in AllocOffsets : ReadCall(t, offset)
    \/ \E t \in Threads : ReadLight(t)
    \/ \E t \in Threads : ReadAcquire(t)
    \/ \E t \in Threads : ReadCheck(t)
    \/ \E t \in Threads : Derive(t)
    \/ \E t \in Threads : WriteAcquire(t)
    \/ \E t \in Threads : WriteStore(t)

SpecAlloc == Init /\ [][NextAlloc]_vars

(***************************************************************************)
(* SpecItem: init_dataset_item called directly (it is a pub fn) and run    *)
(* statement by statement.  item holds its arguments, its locals ds,       *)
(* reg_value, the loop positions k (programs completed) and r (registers   *)
(* mixed in the current pass), and as history the accumulator right after  *)
(* execute (after_exec), at the end of the previous pass (pass_end) and    *)
(* the reg_value handed to each mix_block_value call of the current pass   *)
(* (mixed_with).                                                           *)
(***************************************************************************)
U64Max == <<255, 255, 255, 255, 255, 255, 255, 255>>

ItemInputs ==
    {U64Zero, U64FromNat(1), U64FromNat(2), U64FromNat(DATASET_ITEM_COUNT - 1), U64Max}

InitItem ==
    /\ alloc = VmMemoryAllocator_initial
    /\ mems = <<VmMemory_no_memory>>
    /\ th = [t \in Threads |-> IdleThread]
    /\ last = [op |-> "initial"]
    /\ stores = <<NoSlots>>
    /\ calls = 0
    /\ \E sm \in SeedMemories, n \in ItemInputs :
          item = [pc |-> "start", seed_mem |-> sm, item_num |-> n,
                  ds |-> RegZero, reg_value |-> U64Zero, k |-> 0, r |-> 0,
                  after_exec |-> RegZero, pass_end |-> RegZero, mixed_with |-> <<>>]

\* line 97: the program of the pass that follows k completed passes
current_prog == ScProgram_generate(item.seed_mem.key, item.k + 1)

\* line 88: item_num + 1 is a plain u64 addition; it overflows for u64::MAX only
add_overflows(item_num) == item_num = U64Max

\* lines 85-95.  An overflowing item_num + 1 panics in a build with overflow checks
\* and wraps in a build without them.
ItemBegin ==
    /\ item.pc = "start"
    /\ \/ item' = [item EXCEPT !.pc = "loop",
                               !.reg_value = item.item_num,
                               !.ds = init_accumulator(item.item_num),
                               !.pass_end = init_accumulator(item.item_num)]
       \/ /\ add_overflows(item.item_num)
          /\ item' = [item EXCEPT !.pc = "panicked"]
    /\ UNCHANGED <<alloc, mems, th, last, stores, calls>>

\* line 98: prog.execute(&mut ds)
ItemExecute ==
    /\ item.pc = "loop"
    /\ item.k < item.seed_mem.programs
    /\ item' = [item EXCEPT !.pc = "mix", !.r = 0,
                            !.ds = execute(current_prog, item.ds),
                            !.after_exec = execute(current_prog, item.ds),
                            !.mixed_with = <<>>]
    /\ UNCHANGED <<alloc, mems, th, last, stores, calls>>

\* lines 100-103: one iteration of the loop over the registers
ItemMix ==
    /\ item.pc = "mix"
    /\ item.r < 8
    /\ item' = IF ~mix_index_ok(item.seed_mem, item.reg_value, item.r)
               THEN [item EXCEPT !.pc = "panicked"]
               ELSE [item EXCEPT
                       !.ds[item.r] =
                          bitxor(@, mix_block_value(item.seed_mem, item.reg_value, item.r)),
                       !.r = @ + 1,
                       !.mixed_with = Append(@, item.reg_value)]
    /\ UNCHANGED <<alloc, mems, th, last, stores, calls>>

\* mutant: reg_value is taken from the accumulator as execute left it
address_driver_after_execute(prog, ds) == item.after_exec[prog.address_reg]

\* line 104: ds[prog.address_reg]
address_driver(prog, ds) == ds[prog.address_reg]

\* line 104, and the end of one iteration of the loop over the programs
ItemAddress ==
    /\ item.pc = "mix"
    /\ item.r = 8
    /\ item' = [item EXCEPT !.pc = "loop", !.k = @ + 1,
                            !.reg_value = address_driver(current_prog, item.ds),
                            !.pass_end = item.ds]
    /\ UNCHANGED <<alloc, mems, th, last, stores, calls>>

\* line 106
ItemReturn ==
    /\ item.pc = "loop"
    /\ item.k = item.seed_mem.programs
    /\ item' = [item EXCEPT !.pc = "returned"]
    /\ UNCHANGED <<alloc, mems, th, last, stores, calls>>

NextItem ==
    \/ ItemBegin
    \/ ItemExecute
    \/ ItemMix
    \/ ItemAddress
    \/ ItemReturn

SpecItem == InitItem /\ [][NextItem]_vars

(***************************************************************************)
(* SpecMix: one call of mix_block_value, as line 101 makes it on an        *)
(* initialised SeedMemory, for a reg_value and a register index r.  item   *)
(* holds the arguments and the locals byte_offset, block_ix, block_v_ix.   *)
(***************************************************************************)
MixRegValues ==
    {U64Zero, U64FromNat(1), U64FromNat(15), U64FromNat(16),
     U64FromNat(DATASET_ITEM_COUNT - 1),
     <<255, 255, 63, 0, 0, 0, 0, 0>>, <<0, 0, 64, 0, 0, 0, 0, 0>>,
     <<5, 0, 192, 0, 0, 0, 0, 0>>, <<255, 255, 255, 255, 0, 0, 0, 0>>,
     <<0, 0, 0, 0, 0, 0, 0, 128>>, <<171, 205, 239, 1, 35, 69, 103, 137>>, U64Max}

InitMix ==
    /\ alloc = VmMemoryAllocator_initial
    /\ mems = <<VmMemory_no_memory>>
    /\ th = [t \in Threads |-> IdleThread]
    /\ last = [op |-> "initial"]
    /\ stores = <<NoSlots>>
    /\ calls = 0
    /\ \E key \in Keys, reg_value \in MixRegValues, r \in 0..7 :
          item = [pc |-> "mix_call", seed_mem |-> SeedMemory_new_initialised(key),
                  reg_value |-> reg_value, r |-> r,
                  byte_offset |-> 0, block_ix |-> 0, block_v_ix |-> 0, value |-> U64Zero]

\* lines 76-80
MixOffsets ==
    /\ item.pc = "mix_call"
    /\ item' = [item EXCEPT !.pc = "mix_index",
                            !.byte_offset = mix_byte_offset(item.reg_value, item.r),
                            !.block_ix = mix_block_ix(item.reg_value, item.r),
                            !.block_v_ix = mix_block_v_ix(item.reg_value, item.r)]
    /\ UNCHANGED <<alloc, mems, th, last, stores, calls>>

\* line 81
MixIndex ==
    /\ item.pc = "mix_index"
    /\ item' = IF mix_index_ok(item.seed_mem, item.reg_value, item.r)
               THEN [item EXCEPT !.pc = "mix_ret",
                                 !.value = mix_block_value(item.seed_mem, item.reg_value,
                                                           item.r)]
               ELSE [item EXCEPT !.pc = "panicked"]
    /\ UNCHANGED <<alloc, mems, th, last, stores, calls>>

NextMix ==
    \/ MixOffsets
    \/ MixIndex

SpecMix == InitMix /\ [][NextMix]_vars

(***************************************************************************)
(* SpecPlaceholder: the allocator as initial() left it; the threads fetch  *)
(* its handle and read through the placeholder VmMemory.  item steps the   *)
(* init_dataset_item call such a read makes (lines 84-107 on the           *)
(* placeholder's SeedMemory).                                              *)
(***************************************************************************)
InitPlaceholder ==
    /\ alloc = VmMemoryAllocator_initial
    /\ mems = <<VmMemory_no_memory>>
    /\ th = [t \in Threads |-> IdleThread]
    /\ last = [op |-> "initial"]
    /\ stores = <<NoSlots>>
    /\ calls = 0
    /\ \E offset \in PlaceholderOffsets :
          item = [pc |-> "start", seed_mem |-> VmMemory_no_memory.seed_memory,
                  item_num |-> div_u64(offset, CACHE_LINE_SIZE),
                  ds |-> RegZero, reg_value |-> U64Zero, k |-> 0, r |-> 0,
                  after_exec |-> RegZero, pass_end |-> RegZero, mixed_with |-> <<>>]

NextPlaceholder ==
    \/ \E t \in Threads : Fetch(t)
    \/ \E t \in Threads, offset \in PlaceholderOffsets : ReadCall(t, offset)
    \/ \E t \in Threads : ReadLight(t)
    \/ ItemBegin
    \/ ItemReturn

SpecPlaceholder == InitPlaceholder /\ [][NextPlaceholder]_vars

(***************************************************************************)
(* SpecXor: threads sharing one full and one light VmMemory make several   *)
(* reads in a row on the same register array.                              *)
(***************************************************************************)
NextXor ==
    \/ \E t \in Threads, offset \in XorOffsets : ReadCall(t, offset)
    \/ \E t \in Threads, offset \in XorOffsets : ReadAgain(t, offset)
    \/ \E t \in Threads : ReadLight(t)
    \/ \E t \in Threads : ReadAcquire(t)
    \/ \E t \in Threads : ReadCheck(t)
    \/ \E t \in Threads : Derive(t)
    \/ \E t \in Threads : WriteAcquire(t)
    \/ \E t \in Threads : WriteStore(t)

SpecXor == InitCache /\ [][NextXor]_vars

(***************************************************************************)
(* Vocabulary of the properties.                                           *)
(***************************************************************************)
MemIds == 1..Len(mems)

Slots(m) == mems[m].dataset_memory.slots

\* thread t has returned from a dataset_read
ReadDone(t) == th[t].pc = "done" /\ th[t].op = "read"

\* thread t is inside a full-mode dataset_read and has not reached its XOR loop
ReadPending(t) ==
    th[t].op = "read" /\ th[t].pc \in {"rd_lock", "rd_check", "derive", "wr_lock", "wr_store"}

\* the item the derivation function gives for the call thread t is in (or has finished)
ExpectedItem(t) ==
    dataset_items[mem_of(t).seed_memory][div_u64(th[t].offset, CACHE_LINE_SIZE)]

StoreCount(m, i) == IF i \in DOMAIN stores[m] THEN stores[m][i] ELSE 0

ItemNats == {ToNat(n) : n \in {x \in ItemNums : FitsNat(x)}}

\* C1 (cache transparency): a dataset_read that returned from a full-mode VmMemory
\* left in the registers what a light-mode VmMemory of the same key leaves for the
\* same offset and the same initial registers, after any earlier calls; and a
\* full-mode and a light-mode instance of one key that both served the same offset
\* from equal registers agree.
C1_CacheTransparency ==
    /\ \A t \in Threads :
          (ReadDone(t) /\ mem_of(t).cache) =>
             th[t].reg = dataset_read_light(VmMemory_light(mem_of(t).seed_memory.key),
                                            div_u64(th[t].offset, CACHE_LINE_SIZE),
                                            th[t].reg0)
    /\ \A t, u \in Threads :
          (/\ ReadDone(t) /\ ReadDone(u)
           /\ mem_of(t).cache /\ ~mem_of(u).cache
           /\ mem_of(t).seed_memory = mem_of(u).seed_memory
           /\ th[t].offset = th[u].offset
           /\ th[t].reg0 = th[u].reg0) => th[t].reg = th[u].reg

\* a full-mode read and a light-mode read of the same key, offset and registers have
\* both returned, the full-mode memory having already cached the item
C1_Witness ==
    \E t, u \in Threads :
       /\ ReadDone(t) /\ ReadDone(u)
       /\ mem_of(t).cache /\ ~mem_of(u).cache
       /\ mem_of(t).seed_memory = mem_of(u).seed_memory
       /\ th[t].offset = th[u].offset
       /\ th[t].reg0 = th[u].reg0
       /\ ToNat(th[t].item_num) \in DOMAIN Slots(th[t].handle)

\* C2 (slot invariant): every populated slot i of every full-mode dataset_memory
\* holds init_dataset_item(seed_memory, i), in every reachable state.
C2_SlotHoldsOwnItem ==
    \A m \in MemIds :
       \A i \in DOMAIN Slots(m) :
          /\ mems[m].cache
          /\ i < mems[m].dataset_memory.len
          /\ i \in ItemNats
          /\ Slots(m)[i] = dataset_items[mems[m].seed_memory][U64FromNat(i)]

\* one dataset_memory has two different slots populated
C2_Witness ==
    \E m \in MemIds : Cardinality(DOMAIN Slots(m)) >= 2

\* C3 (idempotent population): a populated slot stays populated and keeps its value
\* in every step, whichever thread acts.
C3_SlotNeverChanges ==
    [][\A m \in MemIds :
          \A i \in DOMAIN Slots(m) :
             /\ i \in DOMAIN mems'[m].dataset_memory.slots
             /\ mems'[m].dataset_memory.slots[i] = Slots(m)[i]]_vars

\* a thread that saw the slot empty holds the exclusive lock and is about to store
\* into the slot another thread has populated meanwhile
C3_Witness ==
    \E t \in Threads :
       /\ th[t].pc = "wr_store"
       /\ ToNat(th[t].item_num) \in DOMAIN Slots(th[t].handle)

\* C4 (concurrent readers): a full-mode dataset_read leaves its caller's registers
\* untouched until its XOR loop, and has XORed init_dataset_item(seed_memory,
\* offset / 64) into them exactly once when it returns, under every interleaving.
C4_EachCallXorsItsItemOnce ==
    \A t \in Threads :
       (th[t].handle # 0 /\ mem_of(t).cache) =>
          /\ ReadPending(t) =>
                /\ th[t].reg = th[t].reg0
                /\ th[t].item_num = div_u64(th[t].offset, CACHE_LINE_SIZE)
          /\ (th[t].op = "read" /\ th[t].pc \in {"wr_lock", "wr_store"}) =>
                th[t].rl = ExpectedItem(t)
          /\ ReadDone(t) => th[t].reg = xor_into(th[t].reg0, ExpectedItem(t))

\* two threads raced on the first touch of one slot: both took the miss path on the
\* same item of the same memory and both have returned
C4_Witness ==
    \E t, u \in Threads :
       /\ t # u
       /\ ReadDone(t) /\ ReadDone(u)
       /\ th[t].handle = th[u].handle
       /\ th[t].item_num = th[u].item_num
       /\ th[t].rl # NoRl /\ th[u].rl # NoRl
       /\ StoreCount(th[t].handle, ToNat(th[t].item_num)) = 2

\* C5 (population is not at-most-once): a thread that holds the exclusive lock after
\* a miss always writes its slot, populated meanwhile or not; nothing re-checks the
\* slot, so one slot can be written by every thread that saw it empty.
C5_EveryMissStores ==
    [][\A t \in Threads :
          (th[t].pc = "wr_store" /\ th'[t].pc # "wr_store") =>
             /\ StoreCount(th[t].handle, ToNat(th[t].item_num))' =
                   StoreCount(th[t].handle, ToNat(th[t].item_num)) + 1
             /\ mems'[th[t].handle].dataset_memory.slots[ToNat(th[t].item_num)] = th[t].rl]_vars

\* the same slot has been written twice
C5_Witness ==
    \E m \in MemIds : \E i \in DOMAIN stores[m] : stores[m][i] >= 2

\* a step of reallocate: the only operation that leaves every thread as it is
ReallocateStep == th' = th /\ calls' = calls /\ last'.op = "reallocate"

\* C6 (reallocation no-op): a reallocate whose seed equals the held vm_memory_seed
\* leaves vm_memory the same handle, every VmMemory (cache contents included) and
\* vm_memory_seed unchanged; so does the second of two consecutive reallocate calls
\* with one seed.
C6_SameSeedIsNoOp ==
    [][/\ (ReallocateStep /\ last'.seed = alloc.vm_memory_seed) =>
             (alloc' = alloc /\ mems' = mems)
       /\ (ReallocateStep /\ last.op = "reallocate" /\ last'.seed = last.seed) =>
             (alloc' = alloc /\ mems' = mems)]_vars

\* a reallocate found its seed unchanged while the held memory had a populated slot
C6_Witness ==
    /\ last.op = "reallocate"
    /\ ~last.rebuilt
    /\ DOMAIN Slots(alloc.vm_memory) # {}

\* C7 (allocator invariant): either the seed is empty and vm_memory is the no_memory
\* placeholder, or vm_memory is the full-mode VmMemory built from the bytes of the
\* held seed.
C7_SeedMatchesMemory ==
    \/ /\ alloc.vm_memory_seed = ""
       /\ mems[alloc.vm_memory] = VmMemory_no_memory
    \/ /\ mems[alloc.vm_memory].seed_memory =
             SeedMemory_new_initialised(string_to_u8_array(alloc.vm_memory_seed))
       /\ mems[alloc.vm_memory].cache
       /\ mems[alloc.vm_memory].dataset_memory.len = DATASET_ITEM_COUNT

\* the allocator was given a second seed: it holds the third VmMemory ever built
C7_Witness ==
    /\ alloc.vm_memory = 3
    /\ last.op = "reallocate" /\ last.rebuilt
    /\ mems[2].cache

\* C8 (old handles): reallocate changes no VmMemory that exists, whoever holds it;
\* seed memory, mode and length of a VmMemory never change; a cache slot changes only
\* by the store of a thread whose handle is that very VmMemory; and a read through a
\* handle the allocator no longer holds returns the item of that handle's own seed.
C8_OldHandleKeepsOldMemory ==
    /\ [][/\ ReallocateStep => \A m \in MemIds : mems'[m] = mems[m]
          /\ mems' # mems =>
                \A m \in MemIds :
                   /\ mems'[m].seed_memory = mems[m].seed_memory
                   /\ mems'[m].cache = mems[m].cache
                   /\ mems'[m].dataset_memory.len = mems[m].dataset_memory.len
                   /\ mems'[m].dataset_memory.slots # Slots(m) =>
                         \E t \in Threads :
                            /\ th[t].handle = m
                            /\ th[t].pc = "wr_store" /\ th'[t].pc = "done"]_vars
    /\ [](\A t \in Threads :
             (ReadDone(t) /\ th[t].handle # alloc.vm_memory) =>
                th[t].reg = xor_into(th[t].reg0, ExpectedItem(t)))

\* a thread kept the handle of a full-mode memory, the allocator moved on to another
\* seed, and the thread then called dataset_read through the old handle: the old
\* memory has the slot, the new memory has none
C8_Witness ==
    \E t \in Threads :
       /\ ReadDone(t)
       /\ th[t].stale_at_call
       /\ th[t].handle # alloc.vm_memory
       /\ mem_of(t).cache /\ mems[alloc.vm_memory].cache
       /\ mem_of(t).seed_memory # mems[alloc.vm_memory].seed_memory
       /\ ToNat(th[t].item_num) \in DOMAIN Slots(th[t].handle)
       /\ DOMAIN Slots(alloc.vm_memory) = {}

\* C9 (no error outcome in the read path): item_num is below the length of the
\* cache array in every call, and no call fails.
C9_ReadPathNeverFails ==
    \A t \in Threads :
       /\ th[t].pc # "panicked"
       /\ (th[t].op \in {"read", "prefetch"} /\ mem_of(t).cache) =>
             in_bounds(mem_of(t).dataset_memory, th[t].item_num)

\* thread t takes a step of dataset_prefetch
PrefetchStep(t) ==
    /\ th'[t].op = "prefetch"
    /\ \A u \in Threads \ {t} : th'[u] = th[u]
    /\ \/ th'[t].pc # th[t].pc
       \/ calls' # calls

\* C10 (prefetch is a pure hint): a step of dataset_prefetch leaves every cache slot,
\* every seed memory and every register array as they are, derives nothing and never
\* takes or releases an exclusive lock; a thread in dataset_prefetch never holds one.
C10_PrefetchChangesNothing ==
    /\ [][\A t \in Threads :
             PrefetchStep(t) =>
                /\ Len(mems') = Len(mems)
                /\ \A m \in MemIds :
                      /\ mems'[m].dataset_memory.slots = Slots(m)
                      /\ mems'[m].dataset_memory.len = mems[m].dataset_memory.len
                      /\ mems'[m].dataset_memory.writer = mems[m].dataset_memory.writer
                      /\ mems'[m].seed_memory = mems[m].seed_memory
                      /\ mems'[m].cache = mems[m].cache
                /\ \A u \in Threads : th'[u].reg = th[u].reg
                /\ th'[t].rl = NoRl
                /\ stores' = stores]_vars
    /\ [](\A t \in Threads : \A m \in MemIds :
             th[t].op = "prefetch" => mems[m].dataset_memory.writer # t)

\* a dataset_prefetch found its slot populated, issued the hint and returned
C10_Witness ==
    \E t \in Threads :
       /\ th[t].op = "prefetch" /\ th[t].pc = "done"
       /\ mem_of(t).cache
       /\ ToNat(th[t].item_num) \in DOMAIN Slots(th[t].handle)

(***************************************************************************)
(* SpecCacheFair: SpecCache with a fair scheduler.  A thread that is       *)
(* inside a call keeps running: its next step is taken if it stays         *)
(* possible (a lock request stays possible once the lock is free, since    *)
(* the number of calls is bounded).                                        *)
(***************************************************************************)
\* thread t has entered a call and has neither returned nor panicked
InCall(t) ==
    th[t].pc \in {"rd_light", "rd_lock", "rd_check", "derive", "wr_lock", "wr_store",
                  "pf_lock", "pf_check"}

\* the next step of the call thread t is in
CallStep(t) ==
    \/ ReadLight(t)
    \/ ReadAcquire(t)
    \/ ReadCheck(t)
    \/ Derive(t)
    \/ WriteAcquire(t)
    \/ WriteStore(t)
    \/ PrefetchAcquire(t)
    \/ PrefetchCheck(t)

SpecCacheFair ==
    InitCache /\ [][NextCache]_vars /\ \A t \in Threads : WF_vars(CallStep(t))

\* a thread that derives an item or requests the exclusive lock holds no shared lock
NoSharedLockWhileDeriving ==
    \A t \in Threads : \A m \in MemIds :
       th[t].pc \in {"derive", "wr_lock", "wr_store"} =>
          t \notin mems[m].dataset_memory.readers

\* while some call is in progress, some call can take a step
NoDeadlock ==
    (\E t \in Threads : InCall(t)) => (\E t \in Threads : ENABLED CallStep(t))

\* every call ends: it returns or it panics
EveryCallEnds ==
    \A t \in Threads : InCall(t) ~> (th[t].pc \in {"done", "panicked"})

\* C11 (termination): no thread holds the shared lock while it derives an item or
\* requests the exclusive lock, no deadlock state is reachable, and under fair
\* scheduling every dataset_read and dataset_prefetch call eventually returns.
C11_EveryCallReturns ==
    /\ []NoSharedLockWhileDeriving
    /\ []NoDeadlock
    /\ \A t \in Threads : InCall(t) ~> (th[t].pc = "done")

\* C12 (populated on first access): when a full-mode dataset_read has returned, the
\* slot of its item is populated; and a dataset_read that starts with its slot
\* populated takes the hit path only: it never derives the item, never requests or
\* holds the exclusive lock, never writes the cache, and returns.
C12_PopulatedOnFirstAccess ==
    \A t \in Threads :
       /\ (ReadDone(t) /\ mem_of(t).cache) =>
             ToNat(th[t].item_num) \in DOMAIN Slots(th[t].handle)
       /\ (th[t].op = "read" /\ th[t].some_at_call) =>
             /\ th[t].pc \in {"rd_lock", "rd_check", "done"}
             /\ th[t].rl = NoRl
             /\ \A m \in MemIds : mems[m].dataset_memory.writer # t

\* one read missed, stored the item and returned; a read of the same item of the
\* same memory that started afterwards has returned too
C12_Witness ==
    \E t, u \in Threads :
       /\ t # u
       /\ ReadDone(t) /\ ReadDone(u)
       /\ mem_of(t).cache
       /\ th[t].handle = th[u].handle /\ th[t].item_num = th[u].item_num
       /\ th[t].rl # NoRl
       /\ th[u].some_at_call
       /\ StoreCount(th[u].handle, ToNat(th[u].item_num)) = 1

\* thread t takes a step of dataset_read
ReadStep(t) ==
    /\ th'[t].op = "read"
    /\ \A u \in Threads \ {t} : th'[u] = th[u]
    /\ \/ th'[t].pc # th[t].pc
       \/ calls' # calls

\* C13 (frame of a read): a step of dataset_read builds no VmMemory and leaves the
\* allocator, every seed memory, cache flag and array length as they are; it changes
\* cache slots only in the store of a miss, only in the memory of its handle and only
\* the slot of its item; a hit and a light-mode read change no slot.  A full-mode
\* array always has DATASET_ITEM_COUNT slots, a light-mode array stays empty.
C13_ReadWritesOneSlot ==
    /\ [][\A t \in Threads :
             ReadStep(t) =>
                /\ alloc' = alloc
                /\ Len(mems') = Len(mems)
                /\ \A m \in MemIds :
                      /\ mems'[m].seed_memory = mems[m].seed_memory
                      /\ mems'[m].cache = mems[m].cache
                      /\ mems'[m].dataset_memory.len = mems[m].dataset_memory.len
                      /\ mems'[m].dataset_memory.slots # Slots(m) =>
                            /\ m = th[t].handle
                            /\ mems[m].cache
                            /\ th[t].pc = "wr_store"
                            /\ DOMAIN mems'[m].dataset_memory.slots =
                                  (DOMAIN Slots(m)) \cup {ToNat(th[t].item_num)}
                            /\ \A i \in (DOMAIN Slots(m)) \ {ToNat(th[t].item_num)} :
                                  mems'[m].dataset_memory.slots[i] = Slots(m)[i]]_vars
    /\ [](\A m \in MemIds :
             /\ mems[m].cache => mems[m].dataset_memory.len = DATASET_ITEM_COUNT
             /\ ~mems[m].cache =>
                   mems[m].dataset_memory.len = 0 /\ Slots(m) = NoSlots)

\* a miss has stored its item into an array that held another item already, and
\* has returned
C13_Witness ==
    \E t \in Threads :
       /\ ReadDone(t) /\ mem_of(t).cache /\ th[t].rl # NoRl
       /\ ~th[t].some_at_call
       /\ Cardinality(DOMAIN Slots(th[t].handle)) >= 2
       /\ StoreCount(th[t].handle, ToNat(th[t].item_num)) = 1

\* C14 (reallocate with another seed): a reallocate whose seed differs from the held
\* one builds one more VmMemory, which no handle held before, and makes it vm_memory:
\* full mode, seed memory initialised from the bytes of the new seed,
\* DATASET_ITEM_COUNT slots, every slot empty, no lock held; vm_memory_seed becomes
\* the new seed.
C14_NewSeedBuildsFreshMemory ==
    [][(ReallocateStep /\ last'.seed # alloc.vm_memory_seed) =>
          /\ alloc'.vm_memory_seed = last'.seed
          /\ Len(mems') = Len(mems) + 1
          /\ alloc'.vm_memory = Len(mems')
          /\ \A t \in Threads : th[t].handle # alloc'.vm_memory
          /\ mems'[alloc'.vm_memory].cache
          /\ mems'[alloc'.vm_memory].seed_memory =
                SeedMemory_new_initialised(string_to_u8_array(last'.seed))
          /\ mems'[alloc'.vm_memory].dataset_memory.len = DATASET_ITEM_COUNT
          /\ mems'[alloc'.vm_memory].dataset_memory.slots = NoSlots
          /\ mems'[alloc'.vm_memory].dataset_memory.readers = {}
          /\ mems'[alloc'.vm_memory].dataset_memory.writer = 0]_vars

\* the allocator held a full-mode memory with a cached item and was then given
\* another seed: the memory it holds now has no item
C14_Witness ==
    /\ last.op = "reallocate" /\ last.rebuilt
    /\ alloc.vm_memory = 3
    /\ mems[2].cache /\ DOMAIN Slots(2) # {}
    /\ mems[3].seed_memory # mems[2].seed_memory
    /\ Slots(3) = NoSlots

\* vm_memory is the full-mode VmMemory derived from seed
HoldsFullMemoryOf(seed) ==
    /\ mems[alloc.vm_memory].cache
    /\ mems[alloc.vm_memory].seed_memory =
          SeedMemory_new_initialised(string_to_u8_array(seed))
    /\ mems[alloc.vm_memory].dataset_memory.len = DATASET_ITEM_COUNT

\* C18 as stated: after any reallocate(seed), the empty seed and the allocator of
\* initial() included, vm_memory_seed is seed and vm_memory is the full-mode VmMemory
\* derived from seed, never the no_memory placeholder.
C18_AlwaysFullAfterReallocate ==
    last.op = "reallocate" =>
       /\ alloc.vm_memory_seed = last.seed
       /\ HoldsFullMemoryOf(last.seed)
       /\ mems[alloc.vm_memory] # VmMemory_no_memory

\* C18 (amended): after any reallocate(seed) vm_memory_seed is seed, and vm_memory is
\* the full-mode VmMemory derived from seed unless seed is empty and the allocator is
\* still as initial() built it: then the call changed nothing and vm_memory is the
\* no_memory placeholder.
C18_FullUnlessStillInitial ==
    last.op = "reallocate" =>
       /\ alloc.vm_memory_seed = last.seed
       /\ IF last.seed = "" /\ alloc = VmMemoryAllocator_initial
          THEN mems[alloc.vm_memory] = VmMemory_no_memory
          ELSE HoldsFullMemoryOf(last.seed) /\ mems[alloc.vm_memory] # VmMemory_no_memory

\* the allocator held a non-empty seed and was then given the empty one: it holds a
\* full-mode memory built from no bytes
C18_Witness ==
    /\ last.op = "reallocate" /\ last.rebuilt
    /\ last.seed = ""
    /\ alloc.vm_memory_seed = ""
    /\ mems[alloc.vm_memory].cache

\* the statement-by-statement run of init_dataset_item returns what the tabulated
\* operator gives
ItemRunAgrees ==
    item.pc = "returned" => item.ds = init_dataset_item(item.seed_mem, item.item_num)

\* x * 10 + d modulo 2^64
Times10Plus(x, d) ==
    wrapping_add(wrapping_add(wrapping_add(wrapping_add(wrapping_add(x, x), wrapping_add(x, x)),
                                           wrapping_add(wrapping_add(x, x), wrapping_add(x, x))),
                              wrapping_add(x, x)),
                 U64FromNat(d))

\* the u64 written as a sequence of decimal digits (its first n digits)
RECURSIVE FromDecimal(_, _)
FromDecimal(digits, n) ==
    IF n = 0 THEN U64Zero
    ELSE CHOOSE y \in {Times10Plus(x, digits[n]) : x \in {FromDecimal(digits, n - 1)}} : TRUE

\* 6364136223846793005, as line 23 writes it
MultiplierDigits == <<6, 3, 6, 4, 1, 3, 6, 2, 2, 3, 8, 4, 6, 7, 9, 3, 0, 0, 5>>

MultiplierFromDigits == FromDecimal(MultiplierDigits, Len(MultiplierDigits))

\* h + h + a modulo 2^64
DoublePlus(h, a) == wrapping_add(wrapping_add(h, h), a)

\* (n * c) mod 2^64 by doubling and adding, for a number n of the model
RECURSIVE TimesMod64(_, _)
TimesMod64(n, c) ==
    IF n = 0 THEN U64Zero
    ELSE CHOOSE y \in {DoublePlus(h, IF n % 2 = 1 THEN c ELSE U64Zero) :
                          h \in {TimesMod64(n \div 2, c)}} : TRUE

AccumulatorConstants ==
    <<SUPERSCALAR_ADD_1, SUPERSCALAR_ADD_2, SUPERSCALAR_ADD_3, SUPERSCALAR_ADD_4,
      SUPERSCALAR_ADD_5, SUPERSCALAR_ADD_6, SUPERSCALAR_ADD_7>>

ItemInRange == FitsNat(item.item_num) /\ ToNat(item.item_num) < DATASET_ITEM_COUNT

\* C15 (initial accumulator): for item_num below DATASET_ITEM_COUNT, when line 95 is
\* done and no program has run, ds[0] = ((item_num + 1) * 6364136223846793005) mod
\* 2^64 and ds[i] = ds[0] XOR C_i for i in 1..7; item_num = 0 gives ds[0] =
\* 6364136223846793005; and the call does not panic.
C15_InitialAccumulator ==
    (item.pc # "none" /\ ItemInRange) =>
       /\ item.pc # "panicked"
       /\ (item.pc = "loop" /\ item.k = 0) =>
             /\ item.ds[0] = TimesMod64(ToNat(item.item_num) + 1, MultiplierFromDigits)
             /\ \A i \in 1..7 : item.ds[i] = bitxor(item.ds[0], AccumulatorConstants[i])
             /\ item.item_num = U64Zero =>
                   item.ds[0] = MultiplierFromDigits

\* the accumulator of an item whose product (item_num + 1) * SUPERSCALAR_MUL_0 does
\* not fit 64 bits has been initialised: the top byte of ds[0] is below the top byte
\* of the multiplier
C15_Witness ==
    /\ item.pc = "loop" /\ item.k = 0
    /\ ItemInRange
    /\ item.seed_mem.programs = RANDOMX_CACHE_ACCESSES
    /\ item.ds[0][8] < SUPERSCALAR_MUL_0[8]

\* the low 22 bits of a u64, read off its bytes
Low22(w) == w[1] + 256 * w[2] + 65536 * (w[3] % 64)

\* C16 (mix_block_value stays in bounds): for every reg_value and r in 0..7,
\* byte_offset = (reg_value AND (2^22 - 1)) * 64 + 8 * r is below 262144 * 1024, the
\* block index is below 262144 and the word index below 128, so the call does not
\* panic; and the words read for r = 0..7 are the consecutive words r of one 64-byte
\* line of one block.
C16_MixStaysInBounds ==
    item.pc \in {"mix_index", "mix_ret", "panicked"} =>
       /\ item.pc # "panicked"
       /\ item.byte_offset = Low22(item.reg_value) * 64 + 8 * item.r
       /\ item.byte_offset < RANDOMX_ARGON_MEMORY * ARGON_BLOCK_SIZE
       /\ item.block_ix = item.byte_offset \div ARGON_BLOCK_SIZE
       /\ item.block_ix < RANDOMX_ARGON_MEMORY
       /\ item.block_v_ix = (item.byte_offset % ARGON_BLOCK_SIZE) \div 8
       /\ item.block_v_ix < 128
       /\ (item.byte_offset - 8 * item.r) % CACHE_LINE_SIZE = 0
       /\ item.block_ix = (item.byte_offset - 8 * item.r) \div ARGON_BLOCK_SIZE
       /\ item.block_v_ix =
             ((item.byte_offset - 8 * item.r) % ARGON_BLOCK_SIZE) \div 8 + item.r
       /\ item.pc = "mix_ret" =>
             item.value = fill_memory(item.seed_mem.key, item.block_ix, item.block_v_ix)

\* reg_value with all 64 bits set, r = 7: the last word of the last block was read
C16_Witness ==
    /\ item.pc = "mix_ret"
    /\ item.reg_value = U64Max /\ item.r = 7
    /\ item.block_ix = RANDOMX_ARGON_MEMORY - 1
    /\ item.block_v_ix = 127

\* the value that drives the mixing of the pass over program number item.k
PassDriver ==
    IF item.k = 0 THEN item.item_num
    ELSE item.pass_end[ScProgram_generate(item.seed_mem.key, item.k).address_reg]

\* C17 (address driver): the first pass mixes with item_num; the pass over program k
\* mixes with the accumulator word named by the address register of program k - 1,
\* read after that program's eight XORs were done; the driver is the same for all
\* eight words of a pass, and a pass executes its program before the first XOR.
C17_AddressDriverThreading ==
    /\ item.pc = "loop" /\ item.k < item.seed_mem.programs =>
          item.reg_value = PassDriver
    /\ item.pc = "mix" =>
          /\ item.reg_value = PassDriver
          /\ Len(item.mixed_with) = item.r
          /\ \A i \in 1..Len(item.mixed_with) : item.mixed_with[i] = PassDriver
          /\ item.after_exec = execute(current_prog, item.pass_end)
          /\ \A j \in 0..7 :
                item.ds[j] = IF j < item.r
                             THEN bitxor(item.after_exec[j],
                                         mix_block_value(item.seed_mem, PassDriver, j))
                             ELSE item.after_exec[j]

\* a later pass is about to start, and its driver differs from the word the previous
\* program's execute left in its address register
C17_Witness ==
    /\ item.pc = "loop"
    /\ item.k >= 1 /\ item.k < item.seed_mem.programs
    /\ item.reg_value # item.item_num
    /\ item.reg_value #
          item.after_exec[ScProgram_generate(item.seed_mem.key, item.k).address_reg]

\* thread t holds the handle of the placeholder VmMemory
OnPlaceholder(t) == th[t].handle = VmMemoryAllocator_initial.vm_memory

\* the accumulator of lines 88-95 for every item of the model, before any mixing
UnmixedAccumulator == [n \in ItemNums |-> init_accumulator(n)]

\* C19 (reads of the placeholder): a dataset_read through the no_memory placeholder
\* never fails and never takes the cached path, for every offset: it leaves the
\* memory as it was and XORs the unmixed initial accumulator of item offset / 64
\* into the registers; the derivation runs no pass over a program.
C19_PlaceholderReadIsUnmixed ==
    /\ mems[VmMemoryAllocator_initial.vm_memory] =
          [seed_memory |-> SeedMemory_no_memory, cache |-> FALSE,
           dataset_memory |-> RwLock_new(0)]
    /\ \A t \in Threads :
          OnPlaceholder(t) =>
             /\ th[t].pc \in {"idle", "rd_light", "done"}
             /\ ReadDone(t) =>
                   th[t].reg =
                      xor_into(th[t].reg0,
                               UnmixedAccumulator[div_u64(th[t].offset, CACHE_LINE_SIZE)])
    /\ item.pc \in {"start", "loop", "returned"}
    /\ item.pc = "returned" => item.ds = UnmixedAccumulator[item.item_num]

\* a read of the largest offset through the placeholder has returned
C19_Witness ==
    \E t \in Threads :
       /\ OnPlaceholder(t) /\ ReadDone(t)
       /\ th[t].offset = U64Max
       /\ th[t].reg # th[t].reg0
       /\ item.pc = "returned"

Reverse(seq) == [i \in 1..Len(seq) |-> seq[Len(seq) + 1 - i]]

\* reg after the items of seq, as init_dataset_item gives them for sm, were XORed
\* into it one after the other
RECURSIVE XorAll(_, _, _)
XorAll(reg, seq, sm) ==
    IF seq = <<>> THEN reg
    ELSE XorAll(xor_into(reg, dataset_items[sm][Head(seq)]), Tail(seq), sm)

\* C20 (XOR-accumulate): when two reads in a row on the same register array and the
\* same VmMemory have offsets in the same 64-byte line, the second read restores the
\* array to what it was before the first (light mode, and full mode through the miss
\* and the hit path); and reads of different items commute: the array is what the
\* same reads give in the opposite order.
C20_ReadsCancelAndCommute ==
    \A t \in Threads :
       (ReadDone(t) /\ Len(th[t].chain) >= 2) =>
          LET n  == Len(th[t].chain)
              sm == mem_of(t).seed_memory
          IN  /\ th[t].chain[n] = th[t].chain[n - 1] =>
                    th[t].reg = XorAll(th[t].reg_first, SubSeq(th[t].chain, 1, n - 2), sm)
              /\ th[t].reg = XorAll(th[t].reg_first, Reverse(th[t].chain), sm)

\* full mode, offsets 64 and 71 of one line: the first read missed and stored the
\* item, the second hit it, and the array is back to its contents before the first
C20_Witness ==
    \E t \in Threads :
       /\ ReadDone(t) /\ mem_of(t).cache
       /\ th[t].chain = <<U64FromNat(1), U64FromNat(1)>>
       /\ th[t].some_at_call
       /\ th[t].offset # OffsetItem1
       /\ th[t].reg = th[t].reg_first
       /\ th[t].reg0 # th[t].reg_first
       /\ StoreCount(th[t].handle, 1) = 1

\* reads of items 1 and 2 in a row, in light or full mode
C20_WitnessCommute ==
    \E t \in Threads :
       /\ ReadDone(t)
       /\ th[t].chain = <<U64FromNat(1), U64FromNat(2)>>
       /\ th[t].reg # th[t].reg_first
====
